---- MODULE Spec2Model ----
(***************************************************************************)
(* A model of Raytracer.cpp (Monte Carlo path tracer): ToneMap, Cast,      *)
(* Trace and Shade.                                                        *)
(*                                                                         *)
(* Numbers.  Colour channels, sample weights and dot products are drawn    *)
(* from small sets of integers, on which the arithmetic of the source is   *)
(* exact.  The uniform draw u of Shade is the rational u / UDen.  A        *)
(* channel mean (r + g + b) / 3 is never divided: every comparison with it *)
(* is multiplied through by 3 * UDen.  The weights of the two indirect     *)
(* samples cancel in real arithmetic (Pi / Pi and                          *)
(* (2 Pi / (e + 2)) * ((e + 2) / (2 Pi))), which is how they are modelled. *)
(***************************************************************************)
EXTENDS Integers, Sequences, FiniteSets, TLC

\* ------------------------------------------------------------------ bounds
MaxDist == 2
MaxObjs == 3
MaxNest == 2
ChainNest == 12
TopNest == 1
UDen == 2
ToneDen == 512
ToneSpread == 2
AlphaStride == 5

\* ------------------------------------------------------- program constants
tree_depth == 1
Posi0 == 100
PosiStep == 15
AlphaMax == 99
ToneScale == 256
ToneTop == 255
ChannelSize == 256

\* Infinity of the source: larger than every distance an object can report.
Infinity == MaxDist + 1
\* An object the ray does not intersect is met at NoDist: never closer than
\* the distance on record.
NoDist == Infinity

\* ------------------------------------------------------------------ Color
Color(r, g, b) == [red |-> r, green |-> g, blue |-> b]
\* Color::Color(): the default colour is black.
Color0 == Color(0, 0, 0)
CAdd(a, b) == Color(a.red + b.red, a.green + b.green, a.blue + b.blue)
CMul(a, b) == Color(a.red * b.red, a.green * b.green, a.blue * b.blue)
CScale(k, a) == Color(k * a.red, k * a.green, k * a.blue)
ChannelSum(a) == a.red + a.green + a.blue

\* --------------------------------------------------------------- Material
Material(e, d, s, p, em) ==
    [emitter |-> e, m_Diffuse |-> d, m_Specular |-> s, m_Phong_exp |-> p,
     m_Emission |-> em]
\* What a default-constructed HitInfo holds before Cast writes into it.
NoMaterial == Material(FALSE, Color0, Color0, 0, Color0)
Lamp == Material(TRUE, Color(1, 0, 0), Color0, 0, Color(2, 2, 2))
Matte == Material(FALSE, Color(1, 1, 1), Color0, 0, Color0)
Glossy == Material(FALSE, Color(1, 0, 0), Color(0, 1, 0), 2, Color0)
Shiny == Material(FALSE, Color(1, 1, 0), Color(1, 1, 1), 1, Color0)
Mirror == Material(FALSE, Color0, Color(2, 1, 1), 1, Color0)
Materials == {Lamp, Matte, Glossy, Shiny, Mirror}

RECURSIVE Pow(_, _)
Pow(b, e) == IF e <= 0 THEN 1 ELSE b * Pow(b, e - 1)

\* ---------------------------------------------------------------- ToneMap
\* (int)floor(256 * c) for the channel value c = n / ToneDen.
ToneFloor(n) == (ToneScale * n) \div ToneDen
\* (channel)k: conversion of an int to an 8-bit unsigned channel.
ToChannel(k) == k % ChannelSize
ToneChannel(n) ==
    LET k == ToneFloor(n) IN ToChannel(IF k >= ToneTop THEN ToneTop ELSE k)
ToneMap(c) ==
    [red |-> ToneChannel(c.red), green |-> ToneChannel(c.green),
     blue |-> ToneChannel(c.blue)]

\* ------------------------------------------------------------------- Cast
\* Object::Intersect under the contract stated in Cast: the geometry record
\* is written only for a hit strictly closer than the recorded distance, and
\* the call returns true exactly then.  d is the distance at which the ray
\* meets the object (NoDist when it does not).
Intersect(d, geom) ==
    IF d # NoDist /\ d < geom.distance
    THEN [hit |-> TRUE, geom |-> [distance |-> d]]
    ELSE [hit |-> FALSE, geom |-> geom]

\* CastVisit with the test object != ignore left out.
CastVisit_TestsIgnored(sc, dists, ignore, i, c) ==
    LET r == Intersect(dists[i], c.hitinfo.geom)
    IN  IF r.hit
        THEN [hit |-> TRUE,
              hitinfo |-> [geom |-> r.geom, material |-> sc[i]],
              tested |-> TRUE, assigned |-> TRUE]
        ELSE [c EXCEPT !.tested = TRUE, !.assigned = FALSE]

\* One iteration of Cast's loop on object i of the scene; c is the loop state
\* [hit, hitinfo], ignore the index of the excluded object (0 for NULL).
CastVisit(sc, dists, ignore, i, c) ==
    IF i # ignore
    THEN LET r == Intersect(dists[i], c.hitinfo.geom)
         IN  IF r.hit
             THEN [hit |-> TRUE,
                   hitinfo |-> [geom |-> r.geom, material |-> sc[i]],
                   tested |-> TRUE, assigned |-> TRUE]
             ELSE [c EXCEPT !.tested = TRUE, !.assigned = FALSE]
    ELSE [c EXCEPT !.tested = FALSE, !.assigned = FALSE]

CastStart(hitinfo) ==
    [hit |-> FALSE, hitinfo |-> hitinfo, tested |-> FALSE, assigned |-> FALSE]

RECURSIVE CastFrom(_, _, _, _, _)
CastFrom(sc, dists, ignore, i, c) ==
    IF i > Len(sc) THEN c
    ELSE CastFrom(sc, dists, ignore, i + 1, CastVisit(sc, dists, ignore, i, c))

\* The whole of Cast: [hit, hitinfo] after the scan.
Cast(sc, dists, hitinfo, ignore) == CastFrom(sc, dists, ignore, 1, CastStart(hitinfo))

HitInfo(d, m) == [geom |-> [distance |-> d], material |-> m]

\* ------------------------------------------------------------------ state
VARIABLES
    scene,      \* Trace/Shade: the objects of the scene, in list order
    bgcolor,    \* Trace/Shade: scene.bgcolor
    stack,      \* Trace/Shade: the activation records, innermost last
    castIn,     \* Cast: its arguments [sc, dists, ignore, hitinfo]
    castI,      \* Cast: the index of the object the loop is at
    castC,      \* Cast: hit and hitinfo, as the loop has left them
    castPc,     \* Cast: "idle", "scan" or "ret"
    toneIn,     \* ToneMap: the colour, channels in units of 1 / ToneDen
    toneOut     \* ToneMap: <<>> or <<the pixel returned>>

vars == <<scene, bgcolor, stack, castIn, castI, castC, castPc, toneIn, toneOut>>

traceVars == <<scene, bgcolor, stack>>
castVars == <<castIn, castI, castC, castPc>>
toneVars == <<toneIn, toneOut>>

TraceIdle == scene = <<>> /\ bgcolor = Color0 /\ stack = <<>>
CastIdle ==
    /\ castIn = [sc |-> <<>>, dists |-> <<>>, ignore |-> 0,
                 hitinfo |-> HitInfo(Infinity, NoMaterial)]
    /\ castI = 0
    /\ castC = CastStart(HitInfo(Infinity, NoMaterial))
    /\ castPc = "idle"
ToneIdle == toneIn = Color0 /\ toneOut = <<>>

\* ------------------------------------------------- ToneMap, as a function
\* Channel values around the points where ToneMap changes behaviour:
\* k = -256, k = 0, k = 255 and k = 512.
ToneCentres == {-ToneDen, 0, ToneDen - 2, 2 * ToneDen}
ToneInputs ==
    {c + o : c \in ToneCentres, o \in (-ToneSpread) .. ToneSpread}

InitTone ==
    /\ toneIn \in {Color(r, g, b) : r \in ToneInputs, g \in ToneInputs,
                                  b \in {0, 2 * ToneDen}}
    /\ toneOut = <<>>
    /\ TraceIdle /\ CastIdle

DoToneMap ==
    /\ toneOut = <<>>
    /\ toneOut' = <<ToneMap(toneIn)>>
    /\ UNCHANGED <<toneIn, traceVars, castVars>>

NextTone == DoToneMap
SpecTone == InitTone /\ [][NextTone]_vars

\* ---------------------------------------------------- Cast, step by step
Scenes(P, n) == UNION {[1 .. k -> P] : k \in 0 .. n}
CastMaterials == {Lamp, Matte}

InitCast ==
    /\ \E sc \in Scenes(CastMaterials, MaxObjs) :
       \E dists \in [1 .. Len(sc) -> 1 .. Infinity] :
       \E ignore \in 0 .. Len(sc) :
       \E d0 \in 1 .. Infinity :
          /\ castIn = [sc |-> sc, dists |-> dists, ignore |-> ignore,
                       hitinfo |-> HitInfo(d0, NoMaterial)]
          /\ castC = CastStart(HitInfo(d0, NoMaterial))
    /\ castI = 1
    /\ castPc = "scan"
    /\ TraceIdle /\ ToneIdle

CastLoop ==
    /\ castPc = "scan"
    /\ castI <= Len(castIn.sc)
    /\ castC' = CastVisit(castIn.sc, castIn.dists, castIn.ignore, castI, castC)
    /\ castI' = castI + 1
    /\ UNCHANGED <<castIn, castPc, traceVars, toneVars>>

CastReturn ==
    /\ castPc = "scan"
    /\ castI > Len(castIn.sc)
    /\ castPc' = "ret"
    /\ UNCHANGED <<castIn, castI, castC, traceVars, toneVars>>

NextCast == CastLoop \/ CastReturn
SpecCast == InitCast /\ [][NextCast]_vars

\* ------------------------------------------------------------ Trace, Shade
\* The activation record of one Trace call and of the Shade call it makes.
\* shaded, samples, did_diff and did_spec record what the call has done.
NewFrame(no_emitters, depth) ==
    [pc |-> "Trace", no_emitters |-> no_emitters, depth |-> depth,
     hit |-> FALSE, material |-> NoMaterial, shaded |-> FALSE,
     max_tree_depth |-> 0, num_reb |-> 0, posi |-> 0, u |-> 0, obj |-> 0,
     diffuse |-> Color0, specular |-> Color0, direct |-> Color0,
     samples |-> <<>>, indirect_diff |-> Color0, indirect_spec |-> Color0,
     did_diff |-> FALSE, did_spec |-> FALSE, color |-> Color0]

Top == stack[Len(stack)]
SetTop(f) == [stack EXCEPT ![Len(stack)] = f]

\* TraceBody with the depth test max_tree_depth > -1 left out.
TraceBody_NoDepthTest(f, sc, bg, dists) ==
    LET c == Cast(sc, dists, HitInfo(Infinity, NoMaterial), 0)
    IN  IF c.hit
        THEN IF c.hitinfo.material.emitter /\ f.no_emitters
             THEN [f EXCEPT !.hit = TRUE, !.material = c.hitinfo.material,
                            !.color = Color0, !.pc = "ret"]
             ELSE [f EXCEPT !.hit = TRUE, !.material = c.hitinfo.material,
                            !.max_tree_depth = f.depth - 1, !.pc = "Shade"]
        ELSE [f EXCEPT !.hit = c.hit, !.material = c.hitinfo.material,
                       !.color = bg, !.pc = "ret"]

\* TraceBody with the no_emitters case returning the background.
TraceBody_EmitterBackground(f, sc, bg, dists) ==
    LET c == Cast(sc, dists, HitInfo(Infinity, NoMaterial), 0)
    IN  IF c.hit /\ f.depth > -1
        THEN IF c.hitinfo.material.emitter /\ f.no_emitters
             THEN [f EXCEPT !.hit = TRUE, !.material = c.hitinfo.material,
                            !.color = bg, !.pc = "ret"]
             ELSE [f EXCEPT !.hit = TRUE, !.material = c.hitinfo.material,
                            !.max_tree_depth = f.depth - 1, !.pc = "Shade"]
        ELSE [f EXCEPT !.hit = c.hit, !.material = c.hitinfo.material,
                       !.color = bg, !.pc = "ret"]

\* Trace, lines 101-130, up to the call of Shade; dists is where the ray
\* meets each object.
TraceBody(f, sc, bg, dists) ==
    LET c == Cast(sc, dists, HitInfo(Infinity, NoMaterial), 0)
    IN  IF c.hit /\ f.depth > -1
        THEN IF c.hitinfo.material.emitter /\ f.no_emitters
             THEN [f EXCEPT !.hit = TRUE, !.material = c.hitinfo.material,
                            !.color = Color0, !.pc = "ret"]
             ELSE [f EXCEPT !.hit = TRUE, !.material = c.hitinfo.material,
                            !.max_tree_depth = f.depth - 1, !.pc = "Shade"]
        ELSE [f EXCEPT !.hit = c.hit, !.material = c.hitinfo.material,
                       !.color = bg, !.pc = "ret"]

\* Shade, lines 158-181: the emitter case, or the start of the roulette.
ShadeEntry(f) ==
    IF f.material.emitter
    THEN [f EXCEPT !.shaded = TRUE, !.color = f.material.m_Diffuse, !.pc = "ret"]
    ELSE [f EXCEPT !.shaded = TRUE, !.num_reb = f.max_tree_depth,
                   !.posi = Posi0, !.pc = "roulette"]

\* RouletteBody with posi -= 15 left out.
RouletteBody_NoDecay(f, alpha) ==
    IF alpha > f.posi
    THEN [f EXCEPT !.posi = -1]
    ELSE [f EXCEPT !.num_reb = f.num_reb + 1]

\* RouletteBody with the test alpha > posi turned into alpha >= posi - 15.
RouletteBody_EarlyStop(f, alpha) ==
    IF alpha >= f.posi - PosiStep
    THEN [f EXCEPT !.posi = -1]
    ELSE [f EXCEPT !.num_reb = f.num_reb + 1, !.posi = f.posi - PosiStep]

\* One iteration of the roulette loop, lines 183-193, with the draw alpha.
RouletteBody(f, alpha) ==
    IF alpha > f.posi
    THEN [f EXCEPT !.posi = -1]
    ELSE [f EXCEPT !.num_reb = f.num_reb + 1, !.posi = f.posi - PosiStep]

\* One emitter of the direct-lighting loop, lines 204-237.  s is the sample:
\* occluded (the shadow Cast's result), NL = N*L, RV = R*V, w = S.w.
DirectBody(f, em, s) ==
    IF s.occluded
    THEN f
    ELSE LET NL == IF s.NL < 0 THEN 0 ELSE s.NL
             diffuse == CScale(NL, f.material.m_Diffuse)
             specular ==
                 IF s.RV > 0 /\ f.material.m_Phong_exp > 0
                 THEN CScale(Pow(s.RV, f.material.m_Phong_exp), f.material.m_Specular)
                 ELSE f.specular
             irradiance == CScale(s.w, em.m_Emission)
         IN  [f EXCEPT !.diffuse = diffuse, !.specular = specular,
                       !.direct = CAdd(f.direct, CMul(CAdd(diffuse, specular), irradiance))]

\* 3 * contriD and 3 * contriS, lines 197-198.
ContriD3(m) == ChannelSum(m.m_Diffuse)
ContriS3(m) == ChannelSum(m.m_Specular)
\* (contriD + contriS) > u, line 241.
IndirectGuard(m, u) == (ContriD3(m) + ContriS3(m)) * UDen > 3 * u
\* u < contriD, line 248.
DiffuseGuard(m, u) == 3 * u < ContriD3(m) * UDen
\* contriD <= u < (contriD + contriS), line 255, as C++ evaluates it: the
\* truth value of contriD <= u, as 0 or 1, is compared with the sum.
SpecularGuard(m, u) ==
    LET b == IF ContriD3(m) * UDen <= 3 * u THEN 1 ELSE 0
    IN  m.m_Phong_exp > 0 /\ 3 * b < ContriD3(m) + ContriS3(m)

\* color_final = direct + indirect, lines 266-270.
Finish(f) ==
    [f EXCEPT !.color = CAdd(f.direct, CAdd(f.indirect_diff, f.indirect_spec)),
              !.pc = "ret"]

\* ---------------------------------------------------------------- actions
DoTrace ==
    /\ stack # <<>> /\ Top.pc = "Trace"
    /\ \E dists \in [1 .. Len(scene) -> 1 .. Infinity] :
          stack' = SetTop(TraceBody(Top, scene, bgcolor, dists))
    /\ UNCHANGED <<scene, bgcolor, castVars, toneVars>>

DoShade ==
    /\ stack # <<>> /\ Top.pc = "Shade"
    /\ stack' = SetTop(ShadeEntry(Top))
    /\ UNCHANGED <<scene, bgcolor, castVars, toneVars>>

RouletteLoop(alphas) ==
    /\ stack # <<>> /\ Top.pc = "roulette"
    /\ Top.posi >= 0
    /\ \E alpha \in alphas : stack' = SetTop(RouletteBody(Top, alpha))
    /\ UNCHANGED <<scene, bgcolor, castVars, toneVars>>

\* The loop's exit and the draw of u, line 196.
RouletteExit(us) ==
    /\ stack # <<>> /\ Top.pc = "roulette"
    /\ Top.posi < 0
    /\ \E u \in us : stack' = SetTop([Top EXCEPT !.u = u, !.obj = 1, !.pc = "direct"])
    /\ UNCHANGED <<scene, bgcolor, castVars, toneVars>>

NLs == {-1, 1}
RVs == {-1, 1}
Weights == {2}

\* The sample of one emitter: S.w, the shadow Cast from the distance to the
\* sample and excluding the emitter, and, when nothing occludes, the two dot
\* products (lines 206-228).
Samples(sc, obj) ==
    {[occluded |-> TRUE, NL |-> 0, RV |-> 0, w |-> w, obj |-> obj] :
        w \in {x \in Weights :
                 \E sdists \in [1 .. Len(sc) -> 1 .. Infinity], d \in 1 .. MaxDist :
                     Cast(sc, sdists, HitInfo(d, NoMaterial), obj).hit}}
    \cup
    {[occluded |-> FALSE, NL |-> t[1], RV |-> t[2], w |-> t[3], obj |-> obj] :
        t \in {x \in NLs \X RVs \X Weights :
                 \E sdists \in [1 .. Len(sc) -> 1 .. Infinity], d \in 1 .. MaxDist :
                     ~Cast(sc, sdists, HitInfo(d, NoMaterial), obj).hit}}

DirectLoop ==
    /\ stack # <<>> /\ Top.pc = "direct"
    /\ Top.obj <= Len(scene)
    /\ IF scene[Top.obj].emitter
       THEN \E s \in Samples(scene, Top.obj) :
               stack' = SetTop([DirectBody(Top, scene[Top.obj], s)
                                   EXCEPT !.obj = Top.obj + 1,
                                          !.samples = Append(Top.samples, s)])
       ELSE stack' = SetTop([Top EXCEPT !.obj = Top.obj + 1])
    /\ UNCHANGED <<scene, bgcolor, castVars, toneVars>>

\* Lines 240-250: after the loop, no indirect light, or the diffuse bounce,
\* or on to the specular test.
IndirectStart(cap) ==
    /\ stack # <<>> /\ Top.pc = "direct"
    /\ Top.obj > Len(scene)
    /\ LET f == [Top EXCEPT !.samples = <<>>]
       IN  IF IndirectGuard(f.material, f.u)
           THEN IF DiffuseGuard(f.material, f.u)
                THEN /\ Len(stack) < cap
                     /\ stack' = Append(SetTop([f EXCEPT !.did_diff = TRUE,
                                                         !.pc = "diffuse"]),
                                        NewFrame(FALSE, f.num_reb))
                ELSE stack' = SetTop([f EXCEPT !.pc = "specular"])
           ELSE stack' = SetTop(Finish(f))
    /\ UNCHANGED <<scene, bgcolor, castVars, toneVars>>

\* The diffuse bounce returns, line 249.
DiffuseReturn ==
    /\ Len(stack) > 1 /\ Top.pc = "ret"
    /\ stack[Len(stack) - 1].pc = "diffuse"
    /\ LET f == stack[Len(stack) - 1]
       IN  stack' = Append(SubSeq(stack, 1, Len(stack) - 2),
                           [f EXCEPT !.indirect_diff =
                                         CMul(f.material.m_Diffuse, Top.color),
                                     !.pc = "specular"])
    /\ UNCHANGED <<scene, bgcolor, castVars, toneVars>>

\* Lines 252-263: the specular bounce, or the sum.
SpecularStart(cap) ==
    /\ stack # <<>> /\ Top.pc = "specular"
    /\ IF SpecularGuard(Top.material, Top.u)
       THEN /\ Len(stack) < cap
            /\ stack' = Append(SetTop([Top EXCEPT !.did_spec = TRUE,
                                                  !.pc = "specular_wait"]),
                               NewFrame(FALSE, Top.num_reb))
       ELSE stack' = SetTop(Finish(Top))
    /\ UNCHANGED <<scene, bgcolor, castVars, toneVars>>

\* The specular bounce returns, line 262, and Shade returns.
SpecularReturn ==
    /\ Len(stack) > 1 /\ Top.pc = "ret"
    /\ stack[Len(stack) - 1].pc = "specular_wait"
    /\ LET f == stack[Len(stack) - 1]
       IN  stack' = Append(SubSeq(stack, 1, Len(stack) - 2),
                           Finish([f EXCEPT !.indirect_spec =
                                                CMul(f.material.m_Specular, Top.color)]))
    /\ UNCHANGED <<scene, bgcolor, castVars, toneVars>>

\* rand(0, 99): the loop only compares a draw with posi, which is a whole
\* number, so the whole draws give every outcome a real draw can give.
Alphas == 0 .. AlphaMax
Us == 0 .. UDen
\* A sample of the generator's range that meets both sides of every value
\* posi takes.
AlphaSample == {a \in Alphas : a % AlphaStride = 0} \cup {AlphaMax}

NextWith(alphas, us, cap) ==
    \/ DoTrace
    \/ DoShade
    \/ RouletteLoop(alphas)
    \/ RouletteExit(us)
    \/ DirectLoop
    \/ IndirectStart(cap)
    \/ DiffuseReturn
    \/ SpecularStart(cap)
    \/ SpecularReturn

Sky == Color(3, 3, 3)
TraceScenes == {<<>>, <<Lamp>>, <<Matte, Lamp>>, <<Mirror>>}
ShadeScenes == {<<Lamp, Glossy>>, <<Lamp, Shiny, Lamp>>}

Next == NextWith(Alphas, Us, MaxNest)

\* cast_line: the primary ray, lines 34 and 50/58.
Init ==
    /\ scene \in TraceScenes
    /\ bgcolor \in {Color0, Sky}
    /\ stack = <<NewFrame(FALSE, tree_depth)>>
    /\ CastIdle /\ ToneIdle

Spec == Init /\ [][Next]_vars

\* Trace as a function of its arguments: any flag, any depth.
InitTrace ==
    /\ scene \in TraceScenes \cup {<<Lamp, Glossy>>}
    /\ bgcolor \in {Color0, Sky}
    /\ \E ne \in BOOLEAN, d \in (-1) .. tree_depth : stack = <<NewFrame(ne, d)>>
    /\ CastIdle /\ ToneIdle

\* The call itself, up to its return or to the first call it nests.
NextTrace ==
    \/ DoTrace
    \/ DoShade
    \/ RouletteLoop(Alphas)
    \/ RouletteExit(Us)
    \/ DirectLoop
    \/ IndirectStart(TopNest)
    \/ SpecularStart(TopNest)
SpecTrace == InitTrace /\ [][NextTrace]_vars

\* cast_line on scenes with glossy surfaces and several emitters.
InitShade ==
    /\ scene \in ShadeScenes
    /\ bgcolor \in {Color0, Sky}
    /\ stack = <<NewFrame(FALSE, tree_depth)>>
    /\ CastIdle /\ ToneIdle

NextShade == NextWith(AlphaSample, Us, MaxNest)
SpecShade == InitShade /\ [][NextShade]_vars

\* One run of the generator: every roulette draw is AlphaMax and every u is 0.
InitChain ==
    /\ scene \in {<<Matte>>, <<Mirror>>}
    /\ bgcolor \in {Color0, Sky}
    /\ stack = <<NewFrame(FALSE, tree_depth)>>
    /\ CastIdle /\ ToneIdle

NextChain == NextWith({AlphaMax}, {0}, ChainNest)
SpecChain == InitChain /\ [][NextChain]_vars

\* ================================================================== claims
Frames == {stack[i] : i \in 1 .. Len(stack)}
\* The frame has left Trace's body.
Traced(f) == f.pc # "Trace"
\* The frame is in Shade's non-emitter part and its roulette loop has ended.
PastRoulette(f) ==
    \/ f.pc = "roulette" /\ f.posi < 0
    \/ f.pc \in {"direct", "diffuse", "specular", "specular_wait"}
    \/ f.pc = "ret" /\ f.shaded /\ ~f.material.emitter
\* The most draws the roulette can accept: posi = 100, 85, ..., 10.
MaxAccepts == (Posi0 \div PosiStep) + 1

\* C1: a Trace call with no_emitters = false and depth >= 0 whose closest
\* hit is an emitter returns that material's emission colour, and Shade has
\* made no nested call.
C1_EmitterReturnsEmission ==
    \A f \in Frames :
        (f.pc = "ret" /\ f.hit /\ f.material.emitter /\ ~f.no_emitters /\ f.depth >= 0)
            => (f.color = f.material.m_Emission /\ ~f.did_diff /\ ~f.did_spec)

\* C2: a Trace call whose ray misses every object, or whose depth is < 0,
\* returns scene.bgcolor without calling Shade.
C2_TerminalBackground ==
    \A f \in Frames :
        (Traced(f) /\ (~f.hit \/ f.depth < 0))
            => (f.pc = "ret" /\ f.color = bgcolor /\ ~f.shaded)
C2_Witness ==
    \E f \in Frames :
        /\ f.pc = "ret" /\ f.hit /\ f.depth < 0 /\ f.material.emitter
        /\ ~f.no_emitters /\ bgcolor = Sky /\ f.color = Sky

\* C3, as claimed: a Trace call with no_emitters = true whose closest hit is
\* an emitter returns Color(0,0,0), whatever the depth and the background.
C3_SuppressedEmitterBlack ==
    \A f \in Frames :
        (Traced(f) /\ f.no_emitters /\ f.hit /\ f.material.emitter)
            => (f.pc = "ret" /\ f.color = Color0)
\* C3, amended: such a call returns Color(0,0,0) when depth >= 0 and
\* scene.bgcolor when depth < 0, without calling Shade.
C3_SuppressedEmitter ==
    \A f \in Frames :
        (Traced(f) /\ f.no_emitters /\ f.hit /\ f.material.emitter)
            => /\ f.pc = "ret" /\ ~f.shaded
               /\ f.color = IF f.depth >= 0 THEN Color0 ELSE bgcolor
C3_Witness ==
    \E f \in Frames :
        /\ f.pc = "ret" /\ f.no_emitters /\ f.hit /\ f.material.emitter
        /\ f.depth >= 0 /\ bgcolor = Sky /\ f.color = Color0

\* C4: the nesting of Trace calls started by cast_line never exceeds the
\* depth budget: the initial depth plus the largest roulette extension, and
\* the two calls that take the budget from 0 to the depth < 0 case.
NestBound == tree_depth + MaxAccepts + 2
C4_NestingBounded == Len(stack) <= NestBound

\* C5: every iteration of the roulette loop brings it nearer to its exit
\* (it ends it, or lowers posi towards the value below 0 that ends it), so
\* the loop runs at most MaxAccepts + 1 times, and num_reb is never below
\* the max_tree_depth Shade was called with.
RouletteLeft(f) == IF f.posi < 0 THEN 0 ELSE (f.posi \div PosiStep) + 2
C5_RouletteStep ==
    (stack # <<>> /\ Top.pc = "roulette" /\ Top.posi >= 0 /\ stack' # stack)
        => /\ Len(stack') = Len(stack)
           /\ stack'[Len(stack')].pc = "roulette"
           /\ RouletteLeft(stack'[Len(stack')]) < RouletteLeft(Top)
           /\ stack'[Len(stack')].num_reb >= Top.num_reb
C5_RouletteState ==
    \A f \in Frames :
        /\ f.pc = "roulette" =>
              /\ f.posi >= -PosiStep /\ f.posi <= Posi0
              /\ f.num_reb >= f.max_tree_depth
        /\ PastRoulette(f) => f.num_reb >= f.max_tree_depth
C5_RouletteTerminates == [][C5_RouletteStep]_vars /\ []C5_RouletteState
C5_Witness ==
    \E f \in Frames :
        f.pc = "direct" /\ f.num_reb = f.max_tree_depth + MaxAccepts

\* C6: in Cast, no step raises hitinfo.geom.distance, the material is
\* assigned only in a step that lowers it, the excluded object is never
\* tested; Cast returns true iff a step lowered the distance, and then the
\* material is that of the nearest object that is not excluded, the first
\* in list order among equals; otherwise the hit record is as it was.
CastCandidates ==
    {i \in 1 .. Len(castIn.sc) :
        /\ i # castIn.ignore
        /\ castIn.dists[i] # NoDist
        /\ castIn.dists[i] < castIn.hitinfo.geom.distance}
CastNearest ==
    CHOOSE i \in CastCandidates :
        \A j \in CastCandidates :
            \/ castIn.dists[i] < castIn.dists[j]
            \/ castIn.dists[i] = castIn.dists[j] /\ i <= j
C6_CastStep ==
    (castPc = "scan" /\ castI' = castI + 1)
        => /\ castC'.hitinfo.geom.distance <= castC.hitinfo.geom.distance
           /\ (castC'.assigned \/ castC'.hitinfo.material # castC.hitinfo.material)
                 => castC'.hitinfo.geom.distance < castC.hitinfo.geom.distance
           /\ castC'.hitinfo.geom.distance < castC.hitinfo.geom.distance
                 => castC'.assigned /\ castC'.hit
           /\ castC'.tested => castI # castIn.ignore
C6_CastResult ==
    castPc = "ret" =>
        /\ castC.hit <=> castC.hitinfo.geom.distance < castIn.hitinfo.geom.distance
        /\ castC.hit <=> CastCandidates # {}
        /\ castC.hit =>
              /\ castC.hitinfo.material = castIn.sc[CastNearest]
              /\ castC.hitinfo.geom.distance = castIn.dists[CastNearest]
        /\ ~castC.hit => castC.hitinfo = castIn.hitinfo
        /\ castIn.sc = <<>> => ~castC.hit
C6_CastInvariant == [][C6_CastStep]_vars /\ []C6_CastResult
C6_Witness ==
    /\ castPc = "ret" /\ castC.hit
    /\ castIn.ignore # 0
    /\ castIn.dists[castIn.ignore] # NoDist
    /\ castIn.dists[castIn.ignore] < castC.hitinfo.geom.distance
    /\ \E i, j \in CastCandidates :
          /\ i < j /\ i = CastNearest
          /\ castIn.dists[i] = castIn.dists[j]
          /\ castIn.sc[i] # castIn.sc[j]

\* C7: ToneMap gives each channel 0 when k = floor(256 c) < 0, k when
\* 0 <= k < 255 and 255 when k >= 255.
ToneClamp(k) == IF k < 0 THEN 0 ELSE IF k < ToneTop THEN k ELSE ToneTop
C7_ToneMapClamps ==
    toneOut # <<>> =>
        /\ toneOut[1].red = ToneClamp(ToneFloor(toneIn.red))
        /\ toneOut[1].green = ToneClamp(ToneFloor(toneIn.green))
        /\ toneOut[1].blue = ToneClamp(ToneFloor(toneIn.blue))

\* C8: a Shade call on a non-emitter makes the diffuse bounce exactly when
\* u < contriD + contriS and u < contriD, the specular bounce exactly when
\* the Phong exponent is > 0 and contriD <= u < contriD + contriS, and never
\* both.
C8_BouncesExclusive ==
    \A f \in Frames :
        (f.pc = "ret" /\ f.shaded /\ ~f.material.emitter) =>
            LET D == ContriD3(f.material) * UDen
                S == ContriS3(f.material) * UDen
                U == 3 * f.u
            IN  /\ f.did_diff <=> (U < D + S /\ U < D)
                /\ f.did_spec <=> (f.material.m_Phong_exp > 0 /\ D <= U /\ U < D + S)
                /\ ~(f.did_diff /\ f.did_spec)

\* C9: the direct total of Shade is the sum over the emitters scanned so
\* far of each one's own contribution, computed from its sample alone: zero
\* if occluded, else (max(0, N.L) diffuse + [R.V > 0 and phong_exp > 0]
\* (R.V)^phong_exp specular) * S.w * emission.
OwnContribution(m, s) ==
    IF s.occluded THEN Color0
    ELSE CMul(CAdd(CScale(IF s.NL < 0 THEN 0 ELSE s.NL, m.m_Diffuse),
                   IF s.RV > 0 /\ m.m_Phong_exp > 0
                   THEN CScale(Pow(s.RV, m.m_Phong_exp), m.m_Specular)
                   ELSE Color0),
              CScale(s.w, scene[s.obj].m_Emission))
RECURSIVE SumContributions(_, _)
SumContributions(m, ss) ==
    IF ss = <<>> THEN Color0
    ELSE CAdd(SumContributions(m, SubSeq(ss, 1, Len(ss) - 1)),
              OwnContribution(m, ss[Len(ss)]))
C9_DirectIsSumOfOwn ==
    \A f \in Frames :
        f.pc = "direct" => f.direct = SumContributions(f.material, f.samples)

\* C10: the roulette accepts between 1 and MaxAccepts = 7 draws, so a Trace
\* call nested in a call of depth d >= 0 has a depth in d .. d + 6, and from
\* cast_line no Trace call has a depth < 0.
C10_DepthNeverDecreases ==
    /\ \A f \in Frames :
          /\ PastRoulette(f) =>
                f.num_reb - f.max_tree_depth \in 1 .. MaxAccepts
          /\ f.depth >= 0
    /\ \A i \in 2 .. Len(stack) :
          /\ stack[i].depth >= stack[i - 1].depth
          /\ stack[i].depth <= stack[i - 1].depth + MaxAccepts - 1
C10_Witness ==
    /\ Len(stack) >= 2
    /\ stack[2].depth = stack[1].depth + MaxAccepts - 1
    /\ stack[2].pc = "direct"
    /\ stack[2].num_reb = stack[2].max_tree_depth + 1

====
